---- MODULE Spec2Model ----
(***************************************************************************)
(* The packaging walkthrough of packaging/intro_to_packaging.ipynb as a    *)
(* sequence of operator steps on a project tree, together with the         *)
(* commands whose recorded output the notebook shows (ls, python setup.py  *)
(* develop, pytest tests -v), the git/pip installation steps and the       *)
(* MANIFEST.in rules applied when building a distribution.                 *)
(***************************************************************************)
EXTENDS Naturals, Sequences, FiniteSets, TLC

VARIABLES
    pc,             \* the walkthrough step reached: flat, moved, init, setup
    files,          \* the project tree
    setupPy,        \* the argument list of the setup.py in the tree
    listing,        \* the output of the last ls
    cmd,            \* the command running: idle, develop, pytest
    out,            \* the number of output lines the command has printed
    develop,        \* what the develop run has done so far
    pytest,         \* what the test session has done so far
    commits,        \* the git history: the tree of each commit
    tag,            \* the commit v0.1 names, 0 before the tag exists
    tagInstalled,   \* the tree the last install at @v0.1 yielded
    headInstalled,  \* the tree the last untagged install yielded
    dist            \* the last distribution built

vars == <<pc, files, setupPy, listing, cmd, out, develop, pytest, commits,
          tag, tagInstalled, headInstalled, dist>>

-----------------------------------------------------------------------------
(* Bounds *)

MaxCommits == 2

-----------------------------------------------------------------------------
(* Files and trees.  A file is its directory (sequence of directory        *)
(* names below the project root), its stem and its extension.              *)

F(dir, stem, ext) == [dir |-> dir, stem |-> stem, ext |-> ext]

Name(f) == IF f.ext = "" THEN f.stem ELSE f.stem \o "." \o f.ext

\* the name under which a file shows up in a listing of the project root
TopName(f) == IF f.dir = <<>> THEN Name(f) ELSE f.dir[1]

TopLevel(tree) == {TopName(f) : f \in tree}

IsPrefix(s, t) == Len(s) <= Len(t) /\ SubSeq(t, 1, Len(s)) = s

PackageName == "cesm_package"

\* "But at the moment, we've just got some flat files."
FlatFiles == {F(<<>>, "statistics", "py"), F(<<>>, "climatologies", "py")}

InitPy(pkg) == F(<<pkg>>, "__init__", "py")

SetupFile == F(<<>>, "setup", "py")

\* the tree shown after the move
TreeAfterMove ==
    {F(<<"cesm_package">>, "climatologies", "py"),
     F(<<"cesm_package">>, "statistics", "py")}

\* the tree shown after adding __init__.py
TreeAfterInit ==
    {F(<<"cesm_package">>, "__init__", "py"),
     F(<<"cesm_package">>, "climatologies", "py"),
     F(<<"cesm_package">>, "statistics", "py")}

\* the tree shown after adding setup.py
TreeAfterSetup ==
    {F(<<"cesm_package">>, "__init__", "py"),
     F(<<"cesm_package">>, "climatologies", "py"),
     F(<<"cesm_package">>, "statistics", "py"),
     F(<<>>, "setup", "py")}

\* the output of the ls cell
LsOutput == {"LICENSE", "README.md", "cesm_package", "setup.py"}

\* the tree of section 6
FinalTree ==
    {F(<<>>, "CHANGELOG", "rst"),
     F(<<>>, "LICENSE", ""),
     F(<<>>, "MANIFEST", "in"),
     F(<<>>, "README", "md"),
     F(<<"cesm_package">>, "__init__", "py"),
     F(<<"cesm_package">>, "climatologies", "py"),
     F(<<"cesm_package">>, "statistics", "py"),
     F(<<"docs">>, "overview", "rst"),
     F(<<>>, "setup", "py"),
     F(<<"tests">>, "test_statistics", "py")}

\* the fixed files of "the most basic directory structure", for a package name
BasicStructure(pkg) ==
    {F(<<>>, "LICENSE", ""), F(<<>>, "README", "md"), InitPy(pkg), SetupFile}

\* the modules of a package directory: its .py files other than __init__.py
Modules(tree, pkg) ==
    {f \in tree : f.dir = <<pkg>> /\ f.ext = "py" /\ f.stem # "__init__"}

\* "a directory containing an initializer file and modules"
IsPackage(tree, pkg) == InitPy(pkg) \in tree /\ Modules(tree, pkg) # {}

\* the files the ls cell shows next to the package and setup.py
EarlyFiles == {F(<<>>, "LICENSE", ""), F(<<>>, "README", "md")}

\* the files the later sections add: CHANGELOG.rst, the tests, the docs,
\* MANIFEST.in
LaterFiles ==
    {F(<<>>, "CHANGELOG", "rst"),
     F(<<"tests">>, "test_statistics", "py"),
     F(<<"docs">>, "overview", "rst"),
     F(<<>>, "MANIFEST", "in")}

NoTree == {}

-----------------------------------------------------------------------------
(* setup.py as printed: the keyword arguments of the call setup(...), in   *)
(* the order written, each with whether a comma follows it on its line.    *)

Arg(key, val, comma) == [key |-> key, val |-> val, comma |-> comma]

\* variant: a requirement the environment never resolves
InstallRequiresExtra == {"xarray", "numpy", "matplotlib", "scipy"}

\* install_requires = ['xarray', 'numpy', 'matplotlib']
InstallRequires == {"xarray", "numpy", "matplotlib"}

SetupArgs ==
    << Arg("author", "Alice Doe", TRUE),
       Arg("author_email", "alice@example.com", TRUE),
       Arg("description", "My CESM analysis package", TRUE),
       Arg("install_requires", InstallRequires, TRUE),
       Arg("license", "MIT", TRUE),
       Arg("long_description", "CESM data analysis package", FALSE),
       Arg("keywords", "ocean modeling", TRUE),
       Arg("name", "cesm-package", TRUE),
       Arg("packages", {"cesm_package"}, TRUE),
       Arg("url", "https://github.com/github-user-name/project-name", TRUE),
       Arg("version", "0.1", TRUE),
       Arg("zip_safe", FALSE, TRUE) >>

\* the value a script gives a keyword
Kw(args, key) == args[CHOOSE i \in 1..Len(args) : args[i].key = key].val

\* An argument list is well formed when every argument but the last is
\* followed by a comma (a comma after the last one is optional).
WellFormedCall(args) == \A i \in 1..(Len(args) - 1) : args[i].comma

-----------------------------------------------------------------------------
(* The recorded output of "python setup.py develop", line by line.         *)

Ln(kind, name, ver) == [kind |-> kind, name |-> name, ver |-> ver]

Blank == Ln("blank", "", "")

SitePackages == "site-packages"

Dep(name, ver) ==
    << Ln("searching", name, ver), Ln("bestmatch", name, ver),
       Ln("adding", name, ver) >>

Using == << Blank, Ln("using", SitePackages, "") >>

DevelopTranscript ==
    << Ln("running", "develop", ""),
       Ln("running", "egg_info", ""),
       Ln("writing", "PKG-INFO", ""),
       Ln("writing", "dependency_links.txt", ""),
       Ln("writing", "requires.txt", ""),
       Ln("writing", "top_level.txt", ""),
       Ln("reading", "SOURCES.txt", ""),
       Ln("reading", "MANIFEST.in", ""),
       Ln("writing", "SOURCES.txt", ""),
       Ln("running", "build_ext", ""),
       Ln("creating", "cesm-package.egg-link", ""),
       Ln("active", "cesm-package", "0.1"),
       Blank,
       Ln("installed", "hello-cesm-package", ""),
       Ln("processing", "cesm-package", "0.1") >>
    \o Dep("matplotlib", "3.1.0") \o Using
    \o Dep("numpy", "1.16.4")
    \o << Ln("script", "f2py", ""), Ln("script", "f2py3", ""),
          Ln("script", "f2py3.6", "") >> \o Using
    \o Dep("xarray", "0.12.1") \o Using
    \o Dep("python-dateutil", "2.8.0") \o Using
    \o << Ln("searching", "cycler", "0.10.0"),
          Ln("bestmatch", "cycler", "0.10.0"),
          Ln("egg", "cycler", "0.10.0"),
          Ln("active", "cycler", "0.10.0"),
          Blank,
          Ln("using", "cycler-0.10.0-py3.6.egg", "") >>
    \o Dep("kiwisolver", "1.1.0") \o Using
    \o Dep("pyparsing", "2.4.0") \o Using
    \o Dep("pandas", "0.24.2") \o Using
    \o Dep("six", "1.12.0") \o Using
    \o Dep("setuptools", "39.1.0")
    \o << Ln("script", "easy_install", "") >> \o Using
    \o Dep("pytz", "2019.1") \o Using
    \o << Ln("finished", "cesm-package", "0.1") >>

-----------------------------------------------------------------------------
(* The recorded output of "pytest tests -v".                               *)

PytestTranscript ==
    << [kind |-> "header", text |-> "test session starts"],
       [kind |-> "platform", text |-> "darwin"],
       [kind |-> "cachedir", text |-> ".pytest_cache"],
       [kind |-> "rootdir", text |-> "hello-cesm-package"],
       [kind |-> "plugins", text |-> "icdiff, env, cov, print, cpp"],
       [kind |-> "collected", count |-> 1],
       [kind |-> "blank"],
       [kind |-> "result", file |-> F(<<"tests">>, "test_statistics", "py"),
        test |-> "test_sample", outcome |-> "PASSED"],
       [kind |-> "blank"],
       [kind |-> "summary", outcome |-> "passed", count |-> 1] >>

\* the directory given on the command line "pytest tests -v"
TestsDir == <<"tests">>

-----------------------------------------------------------------------------
(* MANIFEST.in as printed.                                                 *)

Pat(stem, ext) == [stem |-> stem, ext |-> ext]

ManifestRules ==
    << [cmd |-> "include", dir |-> <<>>, pat |-> Pat("*", "py")],
       [cmd |-> "recursive-include", dir |-> <<"docs">>, pat |-> Pat("*", "rst")] >>

\* a file name pattern of the shape <stem>.<ext>; * matches any stem but
\* never a directory separator
GlobMatch(pat, f) == (pat.stem = "*" \/ pat.stem = f.stem) /\ pat.ext = f.ext

\* include <pat>: the files of the project root matching the pattern;
\* recursive-include <dir> <pat>: the files anywhere under dir matching it
RuleMatches(r, f) ==
    IF r.cmd = "include"
    THEN f.dir = r.dir /\ GlobMatch(r.pat, f)
    ELSE IsPrefix(r.dir, f.dir) /\ GlobMatch(r.pat, f)

ManifestIncluded(rules, tree) ==
    {f \in tree : \E i \in 1..Len(rules) : RuleMatches(rules[i], f)}

-----------------------------------------------------------------------------
(* git and pip                                                             *)

\* the tag of "git tag v0.1" and the ref of "pip install git+...@v0.1"
TagName == "v0.1"

DefaultRef == "default"

\* variant: every ref follows the tip of the default branch
ResolveRefHead(ref) == Len(commits)

\* the commit a ref names: the tag's commit, or the tip of the default branch
ResolveRef(ref) == IF ref = TagName THEN tag ELSE Len(commits)

RefExists(ref) == IF ref = TagName THEN tag # 0 ELSE commits # <<>>

-----------------------------------------------------------------------------
(* Initial state: the flat files, nothing run.                             *)

NoDevelop == [state |-> "none", name |-> "", ver |-> "", resolved |-> {}]

NoPytest ==
    [done |-> FALSE, collected |-> 0, passed |-> 0, reported |-> 0, ran |-> {}]

NoDist == [tree |-> NoTree, included |-> {}]

Init ==
    /\ pc = "flat"
    /\ files = FlatFiles
    /\ setupPy = <<>>
    /\ listing = {}
    /\ cmd = "idle"
    /\ out = 0
    /\ develop = NoDevelop
    /\ pytest = NoPytest
    /\ commits = <<>>
    /\ tag = 0
    /\ tagInstalled = NoTree
    /\ headInstalled = NoTree
    /\ dist = NoDist

Developed == develop.state = "finished"

-----------------------------------------------------------------------------
(* The steps on the project tree.                                          *)

\* variant: the files are copied, the flat files stay
MoveFilesCopy ==
    /\ pc = "flat"
    /\ files' = files \cup {[f EXCEPT !.dir = <<PackageName>>] : f \in files}
    /\ pc' = "moved"
    /\ UNCHANGED <<setupPy, listing, cmd, out, develop, pytest, commits, tag,
                   tagInstalled, headInstalled, dist>>

\* "Create a directory with that name, and move the python files in there."
MoveFiles ==
    /\ pc = "flat"
    /\ files' = {IF f.ext = "py" THEN [f EXCEPT !.dir = <<PackageName>>] ELSE f
                 : f \in files}
    /\ pc' = "moved"
    /\ UNCHANGED <<setupPy, listing, cmd, out, develop, pytest, commits, tag,
                   tagInstalled, headInstalled, dist>>

\* variant: __init__.py lands in the project root
AddInitTopLevel ==
    /\ pc = "moved"
    /\ files' = files \cup {F(<<>>, "__init__", "py")}
    /\ pc' = "init"
    /\ UNCHANGED <<setupPy, listing, cmd, out, develop, pytest, commits, tag,
                   tagInstalled, headInstalled, dist>>

\* "After adding __init__.py, the project directory should be ..."
AddInit ==
    /\ pc = "moved"
    /\ files' = files \cup {InitPy(PackageName)}
    /\ pc' = "init"
    /\ UNCHANGED <<setupPy, listing, cmd, out, develop, pytest, commits, tag,
                   tagInstalled, headInstalled, dist>>

\* variant: setup.py is added whether or not __init__.py is there yet
AddSetupEarly ==
    /\ pc \in {"moved", "init"}
    /\ files' = files \cup {SetupFile}
    /\ setupPy' = SetupArgs
    /\ pc' = "setup"
    /\ UNCHANGED <<listing, cmd, out, develop, pytest, commits, tag,
                   tagInstalled, headInstalled, dist>>

\* "we need to add the setup.py file"
AddSetup ==
    /\ pc = "init"
    /\ files' = files \cup {SetupFile}
    /\ setupPy' = SetupArgs
    /\ pc' = "setup"
    /\ UNCHANGED <<listing, cmd, out, develop, pytest, commits, tag,
                   tagInstalled, headInstalled, dist>>

\* LICENSE and README.md are in place when ls is run; the changelog, the
\* tests, the docs and MANIFEST.in come with the sections after the install.
AddFile(f) ==
    /\ pc = "setup"
    /\ cmd = "idle"
    /\ f \notin files
    /\ f \in EarlyFiles \/ (f \in LaterFiles /\ Developed)
    /\ files' = files \cup {f}
    /\ UNCHANGED <<pc, setupPy, listing, cmd, out, develop, pytest, commits,
                   tag, tagInstalled, headInstalled, dist>>

\* the ls cell, run in the project root before the develop cell
Ls ==
    /\ pc = "setup"
    /\ cmd = "idle"
    /\ develop.state = "none"
    /\ listing' = TopLevel(files)
    /\ UNCHANGED <<pc, files, setupPy, cmd, out, develop, pytest, commits,
                   tag, tagInstalled, headInstalled, dist>>

-----------------------------------------------------------------------------
(* python setup.py develop: the cell after ls, printing its output line by *)
(* line.                                                                   *)

DevelopStart ==
    /\ cmd = "idle"
    /\ develop.state = "none"
    /\ SetupFile \in files
    /\ listing = LsOutput
    /\ TopLevel(files) = listing
    /\ cmd' = "develop"
    /\ out' = 0
    /\ develop' = [develop EXCEPT !.state = "running"]
    /\ UNCHANGED <<pc, files, setupPy, listing, pytest, commits, tag,
                   tagInstalled, headInstalled, dist>>

\* what printing one line of the develop output records: the distribution
\* whose dependencies are processed, each requirement searched for and then
\* resolved to a best match while they are, and the end of the processing
DevelopLine(d, prev, line) ==
    IF line.kind = "processing"
    THEN [d EXCEPT !.state = "processing", !.name = line.name, !.ver = line.ver]
    ELSE IF /\ line.kind = "bestmatch"
            /\ d.state = "processing"
            /\ prev.kind = "searching"
            /\ prev.name = line.name
    THEN [d EXCEPT !.resolved = @ \cup {line.name}]
    ELSE IF /\ line.kind = "finished"
            /\ d.state = "processing"
            /\ line.name = d.name
            /\ line.ver = d.ver
    THEN [d EXCEPT !.state = "finished"]
    ELSE d

DevelopStep ==
    /\ cmd = "develop"
    /\ out < Len(DevelopTranscript)
    /\ out' = out + 1
    /\ develop' = DevelopLine(develop,
                              IF out = 0 THEN Blank ELSE DevelopTranscript[out],
                              DevelopTranscript[out + 1])
    /\ cmd' = IF out + 1 = Len(DevelopTranscript) THEN "idle" ELSE "develop"
    /\ UNCHANGED <<pc, files, setupPy, listing, pytest, commits, tag,
                   tagInstalled, headInstalled, dist>>

-----------------------------------------------------------------------------
(* pytest tests -v                                                         *)

PytestStart ==
    /\ cmd = "idle"
    /\ Developed
    /\ ~pytest.done
    /\ \E f \in files : IsPrefix(TestsDir, f.dir)
    /\ cmd' = "pytest"
    /\ out' = 0
    /\ pytest' = NoPytest
    /\ UNCHANGED <<pc, files, setupPy, listing, develop, commits, tag,
                   tagInstalled, headInstalled, dist>>

\* variant: a result line is recorded but its outcome is not counted
PytestLineUncounted(p, line) ==
    IF line.kind = "collected"
    THEN [p EXCEPT !.collected = line.count]
    ELSE IF line.kind = "result"
    THEN [p EXCEPT !.ran = @ \cup {line.file}]
    ELSE IF line.kind = "summary"
    THEN [p EXCEPT !.reported = line.count, !.done = TRUE]
    ELSE p

\* what printing one line of the session records
PytestLine(p, line) ==
    IF line.kind = "collected"
    THEN [p EXCEPT !.collected = line.count]
    ELSE IF line.kind = "result"
    THEN [p EXCEPT !.ran = @ \cup {line.file},
                   !.passed = IF line.outcome = "PASSED" THEN @ + 1 ELSE @]
    ELSE IF line.kind = "summary"
    THEN [p EXCEPT !.reported = line.count, !.done = TRUE]
    ELSE p

PytestStep ==
    /\ cmd = "pytest"
    /\ out < Len(PytestTranscript)
    /\ out' = out + 1
    /\ pytest' = PytestLine(pytest, PytestTranscript[out + 1])
    /\ cmd' = IF out + 1 = Len(PytestTranscript) THEN "idle" ELSE "pytest"
    /\ UNCHANGED <<pc, files, setupPy, listing, develop, commits, tag,
                   tagInstalled, headInstalled, dist>>

-----------------------------------------------------------------------------
(* "Simply create a git repo of the project directory": commits, the       *)
(* release tag, and installs from the repository.                          *)

GitCommit ==
    /\ cmd = "idle"
    /\ Developed
    /\ Len(commits) < MaxCommits
    /\ IF commits = <<>> THEN TRUE ELSE commits[Len(commits)] # files
    /\ commits' = Append(commits, files)
    /\ UNCHANGED <<pc, files, setupPy, listing, cmd, out, develop, pytest,
                   tag, tagInstalled, headInstalled, dist>>

\* git tag v0.1
GitTag ==
    /\ cmd = "idle"
    /\ commits # <<>>
    /\ tag = 0
    /\ tag' = Len(commits)
    /\ UNCHANGED <<pc, files, setupPy, listing, cmd, out, develop, pytest,
                   commits, tagInstalled, headInstalled, dist>>

\* pip install git+<url> and pip install git+<url>@v0.1
PipInstall(ref) ==
    /\ cmd = "idle"
    /\ RefExists(ref)
    /\ IF ref = TagName
       THEN /\ tagInstalled' = commits[ResolveRef(ref)]
            /\ UNCHANGED headInstalled
       ELSE /\ headInstalled' = commits[ResolveRef(ref)]
            /\ UNCHANGED tagInstalled
    /\ UNCHANGED <<pc, files, setupPy, listing, cmd, out, develop, pytest,
                   commits, tag, dist>>

-----------------------------------------------------------------------------
(* "There's a further step required for distributing": the MANIFEST.in     *)
(* rules applied to the tree.                                              *)

Distribute ==
    /\ cmd = "idle"
    /\ F(<<>>, "MANIFEST", "in") \in files
    /\ dist' = [tree |-> files,
                included |-> ManifestIncluded(ManifestRules, files)]
    /\ UNCHANGED <<pc, files, setupPy, listing, cmd, out, develop, pytest,
                   commits, tag, tagInstalled, headInstalled>>

-----------------------------------------------------------------------------

Next ==
    \/ MoveFiles
    \/ AddInit
    \/ AddSetup
    \/ \E f \in EarlyFiles \cup LaterFiles : AddFile(f)
    \/ Ls
    \/ DevelopStart
    \/ DevelopStep
    \/ PytestStart
    \/ PytestStep
    \/ GitCommit
    \/ GitTag
    \/ \E ref \in {DefaultRef, TagName} : PipInstall(ref)
    \/ Distribute

Spec == Init /\ [][Next]_vars

\* a command that has been started runs to its end
FairSpec == Spec /\ WF_vars(DevelopStep) /\ WF_vars(PytestStep)

-----------------------------------------------------------------------------
(* Properties                                                              *)

\* C1: each of the three steps on the tree (the move, adding __init__.py,
\* adding setup.py) leaves exactly the tree the notebook shows after it; the
\* move leaves no flat file behind, and each of the other two adds exactly
\* one file and keeps every file that was there.
C1_StepsYieldShownTrees ==
    [][ /\ (pc = "flat" /\ pc' = "moved") =>
              /\ files' = TreeAfterMove
              /\ files' \cap FlatFiles = {}
        /\ (pc = "moved" /\ pc' = "init") =>
              /\ files' = TreeAfterInit
              /\ files \subseteq files'
              /\ Cardinality(files' \ files) = 1
        /\ (pc = "init" /\ pc' = "setup") =>
              /\ files' = TreeAfterSetup
              /\ files \subseteq files'
              /\ Cardinality(files' \ files) = 1 ]_vars

C1_Witness == pc = "setup" /\ files = TreeAfterSetup

\* C2: once the files are in the package directory, every tree the
\* walkthrough passes through is part of the final tree of section 6, and
\* when every file has been added the tree is that final tree and has every
\* element of the basic structure of section 1 for cesm_package: LICENSE,
\* README.md, cesm_package/__init__.py, a module in cesm_package, setup.py.
C2_FinalTreeContainsAll ==
    /\ pc # "flat" => files \subseteq FinalTree
    /\ (EarlyFiles \cup LaterFiles) \subseteq files =>
          /\ files = FinalTree
          /\ BasicStructure(PackageName) \subseteq files
          /\ Modules(files, PackageName) # {}

C2_Witness == files = FinalTree /\ pytest.done

\* C3: a distribution built from the final tree with the MANIFEST.in rules
\* includes docs/overview.rst and tests/test_statistics.py.
C3_ManifestIncludesDocsAndTests ==
    dist.tree = FinalTree =>
        {F(<<"docs">>, "overview", "rst"),
         F(<<"tests">>, "test_statistics", "py")} \subseteq dist.included

\* C4: the argument list of the setup.py in the tree is well formed: every
\* keyword argument is separated from the next by a comma.
C4_SetupCallWellFormed == SetupFile \in files => WellFormedCall(setupPy)

C6_TagLocksVersion ==
    [][ /\ tagInstalled' # NoTree =>
              /\ tag' # 0
              /\ tagInstalled' = commits'[tag']
        /\ tag' # 0 =>
              /\ TagName = "v" \o Kw(setupPy', "version")
              /\ SetupFile \in commits'[tag']
        /\ tag # 0 => tag' = tag /\ commits'[tag] = commits[tag]
        /\ tagInstalled # NoTree => tagInstalled' = tagInstalled ]_vars

\* an install at the tag and an untagged install after a later commit differ
C6_Witness ==
    /\ tagInstalled # NoTree
    /\ tag < Len(commits)
    /\ headInstalled = commits[Len(commits)]
    /\ headInstalled # tagInstalled

\* C7: when the test session is over, every test it ran lives under tests/,
\* in a file of the project tree that is a file of the final tree, and the
\* number collected, the number passed and the number reported are all 1.
C7_TestsUnderTestsPass ==
    pytest.done =>
        /\ pytest.ran # {}
        /\ \A f \in pytest.ran :
              IsPrefix(TestsDir, f.dir) /\ f \in files /\ f \in FinalTree
        /\ pytest.collected = pytest.passed
        /\ pytest.reported = pytest.passed
        /\ pytest.collected = 1

C7_Witness == pytest.done /\ cmd = "idle" /\ pytest.passed = 1

\* C8: in every tree that holds setup.py, each name of its packages list is
\* a directory of the project root holding __init__.py and at least one
\* module; the listing taken before the develop run shows it.
C8_PackagesArePackages ==
    SetupFile \in files =>
        \A p \in Kw(setupPy, "packages") :
            /\ p \in TopLevel(files)
            /\ IsPackage(files, p)
            /\ listing = LsOutput => p \in listing

C8_Witness == SetupFile \in files /\ listing = LsOutput /\ Developed

====
